---- MODULE Spec2Model ----
(***************************************************************************)
(* Model of the three Scanner.Scan implementations of zgrab2 (SMB, Telnet, *)
(* MSSQL): one scan invocation per behaviour, stepped through the          *)
(* statements of Scan.  The protocol libraries the scanners call           *)
(* (smb.GetSMBLog, Connection.Handshake, GetTelnetBanner, the status       *)
(* classifier and the connection close helper) are modelled by their       *)
(* documented contract; what the peer does is a nondeterministic choice.   *)
(***************************************************************************)
EXTENDS Naturals, Sequences, FiniteSets

\* ---------------------------------------------------------------- bounds
\* largest number of TDS-wrapped TLS handshake chunks the client writes
MaxTLSChunks == 2
\* longest logical TDS message and largest payload of one TDS packet
MaxPayload == 3
MaxFragment == 2
\* largest --max-read-size the model configures, and longest peer stream
MaxReadSizeBound == 2
MaxStream == 3

\* ---------------------------------------------------------------- values
Protocols == {"smb", "telnet", "mssql"}

SCAN_SUCCESS == "success"
SCAN_INVALID_INPUTS == "invalid-input"
SCAN_APPLICATION_ERROR == "application-error"
\* statuses the generic classifier can give a non-nil error
ErrClasses == {"connection-failed", "timeout", "protocol-error",
               "application-error", "unknown-error"}

\* an error value: the sentinel it is (or wraps), the status the generic
\* classifier gives it, the call that produced it, and whether Scan wrapped
\* it with fmt.Errorf("...%w")
NoErr == [sentinel |-> "nil", class |-> SCAN_SUCCESS, site |-> "none", wrapped |-> FALSE]
MkErr(s, c, at) == [sentinel |-> s, class |-> c, site |-> at, wrapped |-> FALSE]
Wrap(e) == [e EXCEPT !.wrapped = TRUE]
\* errors.Is(err, sentinel): sees through wrapping
ErrorsIs(e, s) == e.sentinel = s

NilResult == [tag |-> "nil"]

VARIABLES
    protocol,     \* which scanner runs this scan
    config,       \* scanner.config (the flags), fixed at Init
    hasL4Dialer,  \* dialGroup.L4Dialer != nil
    pc,           \* position inside Scan
    conns,        \* connections dialed so far: [open, closeCalls]
    deferred,     \* stack of deferred closes (connection indices)
    dialCalls,    \* number of Dial / l4Dialer calls made
    stepCalls,    \* number of protocol steps started (GetSMBLog, GetTelnetBanner, Handshake)
    negCalls,     \* SMB: the GetSMBLog invocations, in order
    result,       \* the local variable result
    err,          \* the local variable err
    retStatus, retResult, retErr,  \* the triple Scan returned
    \* Telnet: the banner reader
    banner,       \* len(result.Banner)
    options,      \* number of options negotiated (isTelnet iff > 0)
    stream,       \* what the peer still sends: [left, end]
    \* MSSQL: the fields of Connection and the values Handshake returns
    hs,                 \* state of the handshake state machine
    preloginSent,       \* a PRELOGIN request was written
    tlsWrites,          \* TDS-wrapped TLS handshake chunks written
    PreloginOptions,    \* sql.PreloginOptions
    readValidTDSPacket, \* sql.readValidTDSPacket
    tlsConn,            \* sql.tlsConn
    encryptMode, handshakeErr,
    peer,         \* what the network and the peer did in this scan, in order
    \* concurrent scans of one scanner: the scan the variables above hold is
    \* the running one, the others are kept aside
    ref,          \* the finished scan that ran alone, or Idle
    other,        \* the scan that is not running now, or Idle
    cur,          \* which scan is running: 0 alone, 1 or 2 of the pair
    \* a TDS message on the wire
    tdsPc,        \* "idle", "open" (being sent), "sent", "done" (reassembled)
    tdsPayload,   \* the logical message
    tdsRest,      \* the part of it not yet sent
    tdsSent,      \* number of packets sent
    tdsWire,      \* bytes written and not yet read
    tdsOut        \* the payload reassembled so far

cfgVars == <<protocol, config, hasL4Dialer>>
retVars == <<retStatus, retResult, retErr>>
telnetVars == <<banner, options, stream>>
mssqlVars == <<hs, preloginSent, tlsWrites, PreloginOptions, readValidTDSPacket,
               tlsConn, encryptMode, handshakeErr>>
vars == <<protocol, config, hasL4Dialer, pc, conns, deferred, dialCalls, stepCalls, negCalls,
          result, err, retStatus, retResult, retErr, banner, options, stream,
          hs, preloginSent, tlsWrites, PreloginOptions, readValidTDSPacket,
          tlsConn, encryptMode, handshakeErr, peer, ref, other, cur,
          tdsPc, tdsPayload, tdsRest, tdsSent, tdsWire, tdsOut>>
scanVars == <<pc, conns, deferred, dialCalls, stepCalls, negCalls, result, err,
              retStatus, retResult, retErr, banner, options, stream,
              hs, preloginSent, tlsWrites, PreloginOptions, readValidTDSPacket,
              tlsConn, encryptMode, handshakeErr, peer>>
concVars == <<ref, other, cur>>
tdsVars == <<tdsPc, tdsPayload, tdsRest, tdsSent, tdsWire, tdsOut>>

\* ------------------------------------------------ connections and defers
NoStream == [left |-> 0, end |-> "eof"]
NoOptions == [tag |-> "nil"]
NoTLS == [tag |-> "nil"]
Idle == [tag |-> "idle"]

\* one entry of peer: what the other side did at a step of the scan
PeerDid(step, o, c, st, t) == [step |-> step, o |-> o, c |-> c, stream |-> st, table |-> t]
DialDid ==
    PeerDid("dial", IF Len(conns') > Len(conns) THEN "connected" ELSE err'.class,
            "-", stream', NoOptions)
NegotiateDid ==
    PeerDid("negotiate",
            IF err' = NoErr THEN "ok" ELSE IF result' = NilResult THEN "negFail" ELSE "sessFail",
            err'.class, NoStream, NoOptions)
OptionsDid ==
    PeerDid("options",
            IF err' # NoErr THEN "truncated" ELSE IF options' > 0 THEN "option" ELSE "none",
            err'.class, NoStream, NoOptions)
ReadEndDid == PeerDid("readEnd", "-", err'.class, NoStream, NoOptions)
SendDid ==
    PeerDid("send", IF preloginSent' THEN "sent" ELSE "failed", handshakeErr'.class,
            NoStream, NoOptions)
ResponseDid ==
    PeerDid("response",
            IF PreloginOptions' # NoOptions THEN "table"
            ELSE IF readValidTDSPacket' THEN "undecodable" ELSE "unreadable",
            IF PreloginOptions' # NoOptions THEN "-" ELSE handshakeErr'.class,
            NoStream, PreloginOptions')
TLSWriteDid ==
    PeerDid("tls",
            IF hs' # "Failed" THEN "chunk"
            ELSE IF tlsConn' = NoTLS THEN "broken" ELSE "brokenWithLog",
            IF hs' # "Failed" THEN "-" ELSE handshakeErr'.class,
            NoStream, NoOptions)
TLSDoneDid == PeerDid("tls", "done", "-", NoStream, NoOptions)

NewConn == [open |-> TRUE, closeCalls |-> 0]

\* zgrab2.CloseConnAndHandleError(conn) / sql.Close(): one Close call on
\* the connection; an error of Close (already closed) is only logged
CloseConnAndHandleError(cs, i) ==
    [cs EXCEPT ![i] = [open |-> FALSE, closeCalls |-> @.closeCalls + 1]]

\* the deferred closes of Scan run at return, last registered first
RECURSIVE RunDefers(_, _)
RunDefers(cs, ds) ==
    IF ds = <<>> THEN cs
    ELSE RunDefers(CloseConnAndHandleError(cs, ds[Len(ds)]), SubSeq(ds, 1, Len(ds) - 1))

\* zgrab2.TryGetScanStatus(err)
TryGetScanStatus(e) == IF e = NoErr THEN SCAN_SUCCESS ELSE e.class

\* classes of the errors the peer / network can cause at each call
DialErrClasses == {"connection-failed", "timeout"}
IOErrClasses == {"timeout", "protocol-error", "unknown-error"}

\* dialGroup.Dial / l4Dialer: what the network lets a dial attempt do
DialOutcomes == {"connected"} \cup DialErrClasses

\* `return status, res, e` of Scan, with the deferred closes
Return(status, res, e) ==
    /\ retStatus' = status
    /\ retResult' = res
    /\ retErr' = e
    /\ conns' = RunDefers(conns, deferred)
    /\ deferred' = <<>>
    /\ pc' = "done"

NotReturned == [tag |-> "none"]

\* ------------------------------------------------------------------ SMB
\* smb.GetSMBLog(conn, session, third, debug): the third positional argument
\* is the literal false / true of the two call sites (the library names it
\* v1); the outcome is the peer's choice.  Step 3 of Scan's comment: a
\* failed negotiation gives log = nil; step 6: a failed session setup gives
\* the log so far; step 4: without --setup-session there is no step 5.
GetSMBLogOutcomes(session) ==
    {"ok", "negFail"} \cup (IF session THEN {"sessFail"} ELSE {})

GetSMBLogResult(n, session, v1, debug, outcome) ==
    IF outcome = "negFail" THEN NilResult
    ELSE [tag |-> "smblog", attempt |-> n, v1 |-> v1, debug |-> debug,
          sessionDone |-> (session /\ outcome = "ok")]

GetSMBLogErr(n, outcome, class) ==
    IF outcome = "ok" THEN NoErr
    ELSE MkErr("other", class, IF n = 1 THEN "neg1" ELSE "neg2")

\* record of one invocation, kept for the claims
NegCall(c, session, v1, debug, log, e) ==
    [conn |-> c, setupSession |-> session, v1 |-> v1, verbose |-> debug,
     connOpen |-> conns[c].open, nOpen |-> Cardinality({i \in DOMAIN conns : conns[i].open}),
     log |-> log, err |-> e]

\* scanner.go:121-125
SmbDial ==
    /\ pc = "smb_dial"
    /\ dialCalls' = dialCalls + 1
    /\ \E o \in DialOutcomes :
        IF o = "connected"
        THEN /\ conns' = Append(conns, NewConn)
             /\ deferred' = Append(deferred, Len(conns) + 1)
             /\ pc' = "smb_neg1"
             /\ UNCHANGED <<err, retStatus, retResult, retErr>>
        ELSE /\ err' = MkErr("other", o, "dial1")
             /\ Return(TryGetScanStatus(err'), NilResult, Wrap(err'))
    /\ UNCHANGED <<cfgVars, concVars, tdsVars, stepCalls, negCalls, result, telnetVars, mssqlVars>>
    /\ peer' = Append(peer, DialDid)

\* scanner.go:127-129: the arguments of the first GetSMBLog call
FirstAttemptArgs ==
    [setupSession |-> config.SetupSession, v1 |-> FALSE, verbose |-> config.Verbose]

\* scanner.go:127-128, 139: the arguments of the second GetSMBLog call
RetryAttemptArgs_SameAsFirst ==
    [setupSession |-> config.SetupSession, v1 |-> FALSE, verbose |-> config.Verbose]
RetryAttemptArgs ==
    [setupSession |-> config.SetupSession, v1 |-> TRUE, verbose |-> config.Verbose]

\* scanner.go:131: with err != nil, the retry is taken iff no log came back
ShouldRetry_Never(res) == FALSE
ShouldRetry_Always(res) == TRUE
ShouldRetry(res) == res = NilResult

\* scanner.go:126-131, 143-147: the first GetSMBLog and the branches on it
SmbNegotiate1 ==
    /\ pc = "smb_neg1"
    /\ \E o \in GetSMBLogOutcomes(FirstAttemptArgs.setupSession), c \in IOErrClasses :
        /\ result' = GetSMBLogResult(1, FirstAttemptArgs.setupSession,
                          FirstAttemptArgs.v1, FirstAttemptArgs.verbose, o)
        /\ err' = GetSMBLogErr(1, o, c)
        /\ negCalls' = Append(negCalls,
              NegCall(1, FirstAttemptArgs.setupSession, FirstAttemptArgs.v1,
                      FirstAttemptArgs.verbose, result', err'))
        /\ IF err' # NoErr
           THEN IF ShouldRetry(result')
                THEN /\ pc' = "smb_close1"
                     /\ UNCHANGED <<conns, deferred, retStatus, retResult, retErr>>
                ELSE Return(TryGetScanStatus(err'), result', err')
           ELSE Return(SCAN_SUCCESS, result', NoErr)
    /\ stepCalls' = stepCalls + 1
    /\ UNCHANGED <<cfgVars, concVars, tdsVars, dialCalls, telnetVars, mssqlVars>>
    /\ peer' = Append(peer, NegotiateDid)

\* the retry taken without closing the failed connection
SmbCloseFirst_Skipped ==
    /\ pc = "smb_close1"
    /\ pc' = "smb_redial"
    /\ UNCHANGED <<cfgVars, peer, concVars, tdsVars, stepCalls, conns, deferred, dialCalls, negCalls, result, err,
                   retVars, telnetVars, mssqlVars>>

\* a retry that forces verbose by writing the scanner's shared flags
SmbCloseFirst_ForceVerbose ==
    /\ pc = "smb_close1"
    /\ conns' = CloseConnAndHandleError(conns, 1)
    /\ pc' = "smb_redial"
    /\ config' = [config EXCEPT !.Verbose = TRUE]
    /\ UNCHANGED <<protocol, hasL4Dialer, peer, concVars, tdsVars, stepCalls, deferred,
                   dialCalls, negCalls, result, err, retVars, telnetVars, mssqlVars>>

\* scanner.go:132
SmbCloseFirst ==
    /\ pc = "smb_close1"
    /\ conns' = CloseConnAndHandleError(conns, 1)
    /\ pc' = "smb_redial"
    /\ UNCHANGED <<cfgVars, peer, concVars, tdsVars, stepCalls, deferred, dialCalls, negCalls, result, err, retVars,
                   telnetVars, mssqlVars>>

\* a re-dial whose failure is classified from the first attempt's error
SmbRedial_StaleStatus ==
    /\ pc = "smb_redial"
    /\ dialCalls' = dialCalls + 1
    /\ \E o \in DialOutcomes :
        IF o = "connected"
        THEN /\ conns' = Append(conns, NewConn)
             /\ deferred' = Append(deferred, Len(conns) + 1)
             /\ pc' = "smb_neg2"
             /\ UNCHANGED <<err, retStatus, retResult, retErr>>
        ELSE /\ err' = MkErr("other", o, "dial2")
             /\ Return(TryGetScanStatus(err), NilResult, Wrap(err'))
    /\ UNCHANGED <<cfgVars, concVars, tdsVars, stepCalls, negCalls, result, telnetVars, mssqlVars>>
    /\ peer' = Append(peer, DialDid)

\* scanner.go:133-138
SmbRedial ==
    /\ pc = "smb_redial"
    /\ dialCalls' = dialCalls + 1
    /\ \E o \in DialOutcomes :
        IF o = "connected"
        THEN /\ conns' = Append(conns, NewConn)
             /\ deferred' = Append(deferred, Len(conns) + 1)
             /\ pc' = "smb_neg2"
             /\ UNCHANGED <<err, retStatus, retResult, retErr>>
        ELSE /\ err' = MkErr("other", o, "dial2")
             /\ Return(TryGetScanStatus(err'), NilResult, Wrap(err'))
    /\ UNCHANGED <<cfgVars, concVars, tdsVars, stepCalls, negCalls, result, telnetVars, mssqlVars>>
    /\ peer' = Append(peer, DialDid)

\* a second failure that starts the retry over instead of returning
SmbNegotiate2_RetryAgain ==
    /\ pc = "smb_neg2"
    /\ \E o \in GetSMBLogOutcomes(RetryAttemptArgs.setupSession), c \in IOErrClasses :
        /\ result' = GetSMBLogResult(Len(negCalls) + 1, RetryAttemptArgs.setupSession,
                          RetryAttemptArgs.v1, RetryAttemptArgs.verbose, o)
        /\ err' = GetSMBLogErr(2, o, c)
        /\ negCalls' = Append(negCalls,
              NegCall(Len(conns), RetryAttemptArgs.setupSession, RetryAttemptArgs.v1,
                      RetryAttemptArgs.verbose, result', err'))
        /\ IF err' # NoErr
           THEN IF ShouldRetry(result')
                THEN /\ pc' = "smb_redial"
                     /\ UNCHANGED <<conns, deferred, retStatus, retResult, retErr>>
                ELSE Return(TryGetScanStatus(err'), result', err')
           ELSE Return(SCAN_SUCCESS, result', NoErr)
    /\ stepCalls' = stepCalls + 1
    /\ UNCHANGED <<cfgVars, concVars, tdsVars, dialCalls, telnetVars, mssqlVars>>
    /\ peer' = Append(peer, NegotiateDid)

\* scanner.go:139-142, 147: the second GetSMBLog, on the new connection
SmbNegotiate2 ==
    /\ pc = "smb_neg2"
    /\ \E o \in GetSMBLogOutcomes(RetryAttemptArgs.setupSession), c \in IOErrClasses :
        /\ result' = GetSMBLogResult(2, RetryAttemptArgs.setupSession,
                          RetryAttemptArgs.v1, RetryAttemptArgs.verbose, o)
        /\ err' = GetSMBLogErr(2, o, c)
        /\ negCalls' = Append(negCalls,
              NegCall(Len(conns), RetryAttemptArgs.setupSession, RetryAttemptArgs.v1,
                      RetryAttemptArgs.verbose, result', err'))
        /\ IF err' # NoErr
           THEN Return(TryGetScanStatus(err'), result', err')
           ELSE Return(SCAN_SUCCESS, result', NoErr)
    /\ stepCalls' = stepCalls + 1
    /\ UNCHANGED <<cfgVars, concVars, tdsVars, dialCalls, telnetVars, mssqlVars>>
    /\ peer' = Append(peer, NegotiateDid)

\* --------------------------------------------------------------- Telnet
\* what a telnet peer can do after the connection is up: send `left` banner
\* bytes and then close (eof) or break (ioerr)
Streams == [left : 0..MaxStream, end : {"eof", "ioerr"}]

TelnetLog == [tag |-> "telnetlog", banner |-> banner, options |-> options]

\* TelnetLog.getResult(): the log if any option was negotiated, else nil
getResult(log) == IF log.options > 0 THEN log ELSE NilResult

\* telnet/scanner.go:115-120
TelnetDial ==
    /\ pc = "telnet_dial"
    /\ dialCalls' = dialCalls + 1
    /\ \E o \in DialOutcomes :
        IF o = "connected"
        THEN /\ conns' = Append(conns, NewConn)
             /\ deferred' = Append(deferred, Len(conns) + 1)
             /\ pc' = "telnet_negotiate"
             /\ \E st \in Streams : stream' = st
             /\ UNCHANGED <<err, retVars>>
        ELSE /\ err' = MkErr("other", o, "dial1")
             /\ stream' = stream
             /\ Return(TryGetScanStatus(err'), NilResult, Wrap(err'))
    /\ UNCHANGED <<cfgVars, concVars, tdsVars, stepCalls, negCalls, result, banner, options, mssqlVars>>
    /\ peer' = Append(peer, DialDid)

\* GetTelnetBanner, first part: the option negotiation.  The peer opens
\* with no control sequence, with one complete IAC sequence (refused and
\* recorded), or with a sequence cut short, which is a read error.
TelnetNegotiateOptions ==
    /\ pc = "telnet_negotiate"
    /\ \E o \in {"none", "option", "truncated"} :
        /\ options' = IF o = "option" THEN 1 ELSE 0
        /\ IF o = "truncated"
           THEN /\ \E c \in IOErrClasses : err' = MkErr("other", c, "negotiate")
                /\ pc' = "telnet_return"
           ELSE /\ err' = NoErr
                /\ pc' = "telnet_read"
    /\ stepCalls' = stepCalls + 1
    /\ UNCHANGED <<cfgVars, concVars, tdsVars, conns, deferred, dialCalls, negCalls, result, retVars,
                   banner, stream, mssqlVars>>
    /\ peer' = Append(peer, OptionsDid)

\* telnet/scanner.go:121: the ceiling handed to GetTelnetBanner
ReadCeiling_OffByOne == config.MaxReadSize + 1
ReadCeiling == config.MaxReadSize

\* GetTelnetBanner, the read loop: one more banner byte below the ceiling
TelnetReadByte ==
    /\ pc = "telnet_read"
    /\ banner < ReadCeiling
    /\ stream.left > 0
    /\ banner' = banner + 1
    /\ stream' = [stream EXCEPT !.left = @ - 1]
    /\ UNCHANGED <<cfgVars, peer, concVars, tdsVars, stepCalls, pc, conns, deferred, dialCalls, negCalls, result, err,
                   retVars, options, mssqlVars>>

\* GetTelnetBanner, end of the loop: ceiling reached or EOF (no error), or
\* an I/O error before the ceiling
TelnetReadEnd ==
    /\ pc = "telnet_read"
    /\ banner = ReadCeiling \/ stream.left = 0
    /\ IF banner < ReadCeiling /\ stream.end = "ioerr"
       THEN \E c \in IOErrClasses : err' = MkErr("other", c, "banner")
       ELSE err' = NoErr
    /\ pc' = "telnet_return"
    /\ UNCHANGED <<cfgVars, concVars, tdsVars, stepCalls, conns, deferred, dialCalls, negCalls, result, retVars,
                   telnetVars, mssqlVars>>
    /\ peer' = Append(peer, ReadEndDid)

\* telnet/scanner.go:122-126: the result attached to a failed banner read
ErrorResult_IgnoreFlag(log) == getResult(log)
ErrorResult(log) ==
    IF config.Banner /\ log.banner > 0 THEN log ELSE getResult(log)

\* a return that filters the log through getResult on success too
TelnetReturn_GetResultAlways ==
    /\ pc = "telnet_return"
    /\ result' = TelnetLog
    /\ IF err # NoErr
       THEN Return(TryGetScanStatus(err), ErrorResult(result'), err)
       ELSE Return(SCAN_SUCCESS, getResult(result'), NoErr)
    /\ UNCHANGED <<cfgVars, peer, concVars, tdsVars, stepCalls, dialCalls, negCalls, err, telnetVars, mssqlVars>>

\* telnet/scanner.go:121-128
TelnetReturn ==
    /\ pc = "telnet_return"
    /\ result' = TelnetLog
    /\ IF err # NoErr
       THEN Return(TryGetScanStatus(err), ErrorResult(result'), err)
       ELSE Return(SCAN_SUCCESS, result', NoErr)
    /\ UNCHANGED <<cfgVars, peer, concVars, tdsVars, stepCalls, dialCalls, negCalls, err, telnetVars, mssqlVars>>

\* ---------------------------------------------------------------- MSSQL
ErrNoServerEncryption == "ErrNoServerEncryption"
ErrServerRequiresEncryption == "ErrServerRequiresEncryption"

\* --encrypt-mode values and the modes a server can state
ClientModes == {"ENCRYPT_ON", "ENCRYPT_OFF", "ENCRYPT_NOT_SUP"}
ServerModes == {"ENCRYPT_ON", "ENCRYPT_OFF", "ENCRYPT_NOT_SUP", "ENCRYPT_REQ"}
EncryptModeUnknown == "UNKNOWN"

\* raw values of the INSTANCE option a server can send
InstanceValues == {<<>>, <<"S">>, <<"S", "NUL">>, <<"CR", "NUL">>}
TrimSet == {"NUL", "CR", "LF"}

\* the decoded PRELOGIN option table of a response
OptionTables == [encryption : ServerModes, hasVersion : BOOLEAN,
                 hasInstance : BOOLEAN, instance : InstanceValues]
TLSConn == [tag |-> "tlsconn"]

\* strings.Trim(s, "\x00\r\n")
RECURSIVE TrimLeft(_)
TrimLeft(s) == IF s # <<>> /\ s[1] \in TrimSet THEN TrimLeft(Tail(s)) ELSE s
RECURSIVE TrimRight(_)
TrimRight(s) ==
    IF s # <<>> /\ s[Len(s)] \in TrimSet THEN TrimRight(SubSeq(s, 1, Len(s) - 1)) ELSE s
Trim(s) == TrimRight(TrimLeft(s))

\* &ScanResults{}
EmptyScanResults ==
    [tag |-> "mssql", EncryptMode |-> "unset", TLSLog |-> "unset",
     PreloginOptions |-> NoOptions, Version |-> "",
     InstanceName |-> [present |-> FALSE, value |-> <<>>]]

\* part_000:143-144
L4DialerMissing_Unchecked == FALSE
L4DialerMissing == ~hasL4Dialer

\* part_000:143-146
MssqlCheckL4Dialer ==
    /\ pc = "mssql_l4"
    /\ IF L4DialerMissing
       THEN /\ err' = MkErr("other", SCAN_INVALID_INPUTS, "l4")
            /\ Return(SCAN_INVALID_INPUTS, NilResult, err')
       ELSE /\ pc' = "mssql_dial"
            /\ UNCHANGED <<conns, deferred, err, retVars>>
    /\ UNCHANGED <<cfgVars, peer, concVars, tdsVars, stepCalls, dialCalls, negCalls, result, telnetVars, mssqlVars>>

\* a dial whose failure returns the (empty) result instead of nil
MssqlDial_ResultOnFailure ==
    /\ pc = "mssql_dial"
    /\ dialCalls' = dialCalls + 1
    /\ \E o \in DialOutcomes :
        IF o = "connected"
        THEN /\ conns' = Append(conns, NewConn)
             /\ deferred' = Append(deferred, Len(conns) + 1)
             /\ result' = EmptyScanResults
             /\ pc' = "mssql_handshake"
             /\ UNCHANGED <<err, retVars>>
        ELSE /\ err' = MkErr("other", o, "dial1")
             /\ result' = EmptyScanResults
             /\ Return(TryGetScanStatus(err'), result', Wrap(err'))
    /\ UNCHANGED <<cfgVars, concVars, tdsVars, stepCalls, negCalls, telnetVars, mssqlVars>>
    /\ peer' = Append(peer, DialDid)

\* part_000:147-158
MssqlDial ==
    /\ pc = "mssql_dial"
    /\ dialCalls' = dialCalls + 1
    /\ \E o \in DialOutcomes :
        IF o = "connected"
        THEN /\ conns' = Append(conns, NewConn)
             /\ deferred' = Append(deferred, Len(conns) + 1)
             /\ result' = EmptyScanResults
             /\ pc' = "mssql_handshake"
             /\ UNCHANGED <<err, retVars>>
        ELSE /\ err' = MkErr("other", o, "dial1")
             /\ result' = result
             /\ Return(TryGetScanStatus(err'), NilResult, Wrap(err'))
    /\ UNCHANGED <<cfgVars, concVars, tdsVars, stepCalls, negCalls, telnetVars, mssqlVars>>
    /\ peer' = Append(peer, DialDid)

\* -- Connection.Handshake, by the state machine
\*    Init -> SendPrelogin -> AwaitPreloginResponse -> TLSHandshakeOverTDS -> Done
\* with a failure exit from every state
HandshakeFail(mode, e) ==
    /\ hs' = "Failed"
    /\ encryptMode' = mode
    /\ handshakeErr' = e

HandshakeInit ==
    /\ pc = "mssql_handshake"
    /\ hs = "Init"
    /\ hs' = "SendPrelogin"
    /\ stepCalls' = stepCalls + 1
    /\ UNCHANGED <<cfgVars, peer, concVars, tdsVars, pc, conns, deferred, dialCalls, negCalls, result, err,
                   retVars, telnetVars, preloginSent, tlsWrites, PreloginOptions,
                   readValidTDSPacket, tlsConn, encryptMode, handshakeErr>>

\* SendPrelogin: the PRELOGIN request is written, or the write fails
HandshakeSendPrelogin ==
    /\ pc = "mssql_handshake"
    /\ hs = "SendPrelogin"
    /\ \/ /\ preloginSent' = TRUE
          /\ hs' = "AwaitPreloginResponse"
          /\ UNCHANGED <<encryptMode, handshakeErr>>
       \/ /\ \E c \in IOErrClasses :
                HandshakeFail(EncryptModeUnknown, MkErr("other", c, "send"))
          /\ UNCHANGED preloginSent
    /\ UNCHANGED <<cfgVars, concVars, tdsVars, stepCalls, pc, conns, deferred, dialCalls, negCalls, result, err,
                   retVars, telnetVars, tlsWrites, PreloginOptions,
                   readValidTDSPacket, tlsConn>>
    /\ peer' = Append(peer, SendDid)

\* what follows a decoded option table: the server's mode is the mode
\* returned; NOT_SUPPORTED ends the handshake (with ErrNoServerEncryption if
\* the client asked for encryption), a server that requires encryption from
\* a client that cannot is ErrServerRequiresEncryption, anything else goes
\* on to the TLS handshake
AfterPrelogin(client, server) ==
    IF server = "ENCRYPT_NOT_SUP"
    THEN IF client = "ENCRYPT_ON"
         THEN HandshakeFail(server, MkErr(ErrNoServerEncryption, "unknown-error", "read"))
         ELSE /\ hs' = "Done"
              /\ encryptMode' = server
              /\ handshakeErr' = NoErr
    ELSE IF client = "ENCRYPT_NOT_SUP" /\ server = "ENCRYPT_REQ"
         THEN HandshakeFail(server, MkErr(ErrServerRequiresEncryption, "unknown-error", "read"))
         ELSE /\ hs' = "TLSHandshakeOverTDS"
              /\ encryptMode' = server
              /\ handshakeErr' = NoErr

\* AwaitPreloginResponse: nothing readable, bytes that are no TDS header,
\* a valid TDS header whose payload does not decode, or a PRELOGIN response
HandshakeAwaitPreloginResponse ==
    /\ pc = "mssql_handshake"
    /\ hs = "AwaitPreloginResponse"
    /\ \/ /\ \E c \in IOErrClasses :
                HandshakeFail(EncryptModeUnknown, MkErr("other", c, "read"))
          /\ UNCHANGED <<PreloginOptions, readValidTDSPacket>>
       \/ /\ HandshakeFail(EncryptModeUnknown, MkErr("other", "protocol-error", "read"))
          /\ readValidTDSPacket' = TRUE
          /\ UNCHANGED PreloginOptions
       \/ \E t \in OptionTables :
            /\ readValidTDSPacket' = TRUE
            /\ PreloginOptions' = t
            /\ AfterPrelogin(config.EncryptMode, t.encryption)
    /\ UNCHANGED <<cfgVars, concVars, tdsVars, stepCalls, pc, conns, deferred, dialCalls, negCalls, result, err,
                   retVars, telnetVars, preloginSent, tlsWrites, tlsConn>>
    /\ peer' = Append(peer, ResponseDid)

\* TLSHandshakeOverTDS: one more chunk of TLS handshake bytes goes out in a
\* TDS packet, or the handshake breaks; a server that requires encryption
\* then gives ErrServerRequiresEncryption
HandshakeTLSWrite ==
    /\ pc = "mssql_handshake"
    /\ hs = "TLSHandshakeOverTDS"
    /\ tlsWrites < MaxTLSChunks
    /\ tlsWrites' = tlsWrites + 1
    /\ \/ UNCHANGED <<hs, encryptMode, handshakeErr, tlsConn>>
       \/ /\ \E c \in IOErrClasses :
                HandshakeFail(encryptMode,
                    IF PreloginOptions.encryption = "ENCRYPT_REQ"
                    THEN MkErr(ErrServerRequiresEncryption, c, "tls")
                    ELSE MkErr("other", c, "tls"))
          /\ \E t \in {NoTLS, TLSConn} : tlsConn' = t
    /\ UNCHANGED <<cfgVars, concVars, tdsVars, stepCalls, pc, conns, deferred, dialCalls, negCalls, result, err,
                   retVars, telnetVars, preloginSent, PreloginOptions,
                   readValidTDSPacket>>
    /\ peer' = Append(peer, TLSWriteDid)

\* the TLS handshake completes after at least one chunk was written
HandshakeTLSDone ==
    /\ pc = "mssql_handshake"
    /\ hs = "TLSHandshakeOverTDS"
    /\ tlsWrites > 0
    /\ tlsConn' = TLSConn
    /\ hs' = "Done"
    /\ UNCHANGED <<cfgVars, concVars, tdsVars, stepCalls, pc, conns, deferred, dialCalls, negCalls, result, err,
                   retVars, telnetVars, preloginSent, tlsWrites, PreloginOptions,
                   readValidTDSPacket, encryptMode, handshakeErr>>
    /\ peer' = Append(peer, TLSDoneDid)

\* part_000:160-181: the result is assembled from what Handshake left
AssembledResult_TLSLogAlways ==
    LET r1 == [EmptyScanResults EXCEPT !.EncryptMode = encryptMode]
        r2 == [r1 EXCEPT !.TLSLog = "tlslog"]
    IN  IF PreloginOptions # NoOptions
        THEN [r2 EXCEPT
                !.PreloginOptions = PreloginOptions,
                !.Version = IF PreloginOptions.hasVersion THEN "12.0.2000.0" ELSE "",
                !.InstanceName =
                    IF PreloginOptions.hasInstance
                    THEN [present |-> TRUE, value |-> Trim(PreloginOptions.instance)]
                    ELSE [present |-> FALSE, value |-> <<>>]]
        ELSE r2
AssembledResult_DropEmptyInstance ==
    LET r1 == [EmptyScanResults EXCEPT !.EncryptMode = encryptMode]
        r2 == IF tlsConn # NoTLS THEN [r1 EXCEPT !.TLSLog = "tlslog"] ELSE r1
    IN  IF PreloginOptions # NoOptions
        THEN [r2 EXCEPT
                !.PreloginOptions = PreloginOptions,
                !.Version = IF PreloginOptions.hasVersion THEN "12.0.2000.0" ELSE "",
                !.InstanceName =
                    IF PreloginOptions.hasInstance /\ Trim(PreloginOptions.instance) # <<>>
                    THEN [present |-> TRUE, value |-> Trim(PreloginOptions.instance)]
                    ELSE [present |-> FALSE, value |-> <<>>]]
        ELSE r2
AssembledResult ==
    LET r1 == [EmptyScanResults EXCEPT !.EncryptMode = encryptMode]
        r2 == IF tlsConn # NoTLS THEN [r1 EXCEPT !.TLSLog = "tlslog"] ELSE r1
    IN  IF PreloginOptions # NoOptions
        THEN [r2 EXCEPT
                !.PreloginOptions = PreloginOptions,
                !.Version = IF PreloginOptions.hasVersion THEN "12.0.2000.0" ELSE "",
                !.InstanceName =
                    IF PreloginOptions.hasInstance
                    THEN [present |-> TRUE, value |-> Trim(PreloginOptions.instance)]
                    ELSE [present |-> FALSE, value |-> <<>>]]
        ELSE r2

\* a Scan that goes on to its result only after a completed handshake
MssqlAssemble_OnlyOnDone ==
    /\ pc = "mssql_handshake"
    /\ hs = "Done"
    /\ result' = AssembledResult
    /\ pc' = "mssql_return"
    /\ UNCHANGED <<cfgVars, peer, concVars, tdsVars, stepCalls, conns, deferred, dialCalls, negCalls, err, retVars,
                   telnetVars, mssqlVars>>

MssqlAssemble ==
    /\ pc = "mssql_handshake"
    /\ hs \in {"Done", "Failed"}
    /\ result' = AssembledResult
    /\ pc' = "mssql_return"
    /\ UNCHANGED <<cfgVars, peer, concVars, tdsVars, stepCalls, conns, deferred, dialCalls, negCalls, err, retVars,
                   telnetVars, mssqlVars>>

\* part_000:184-192: the result attached to a failed handshake
FailureResult_OptionsOnly(r) ==
    IF PreloginOptions = NoOptions THEN NilResult ELSE r
FailureResult(r) ==
    IF PreloginOptions = NoOptions /\ ~readValidTDSPacket THEN NilResult ELSE r

\* part_000:193-200: the status of a failed handshake
FailureStatus_OneSentinel(e) ==
    IF ErrorsIs(e, ErrNoServerEncryption) THEN SCAN_APPLICATION_ERROR
    ELSE TryGetScanStatus(e)
FailureStatus_Generic(e) == TryGetScanStatus(e)
FailureStatus(e) ==
    IF ErrorsIs(e, ErrNoServerEncryption) THEN SCAN_APPLICATION_ERROR
    ELSE IF ErrorsIs(e, ErrServerRequiresEncryption) THEN SCAN_APPLICATION_ERROR
    ELSE TryGetScanStatus(e)

\* part_000:183-202
MssqlReturn ==
    /\ pc = "mssql_return"
    /\ IF handshakeErr # NoErr
       THEN /\ result' = FailureResult(result)
            /\ Return(FailureStatus(handshakeErr), result', handshakeErr)
       ELSE /\ result' = result
            /\ Return(SCAN_SUCCESS, result, NoErr)
    /\ UNCHANGED <<cfgVars, peer, concVars, tdsVars, stepCalls, dialCalls, negCalls, err, telnetVars, mssqlVars>>

\* ------------------------------------------------------- specification
Configs(p) ==
    IF p = "smb" THEN [SetupSession : BOOLEAN, Verbose : BOOLEAN]
    ELSE IF p = "telnet" THEN [MaxReadSize : 1..MaxReadSizeBound, Banner : BOOLEAN]
    ELSE [EncryptMode : ClientModes]

Init ==
    /\ protocol \in Protocols
    /\ config \in Configs(protocol)
    /\ hasL4Dialer \in (IF protocol = "mssql" THEN BOOLEAN ELSE {TRUE})
    /\ pc = (IF protocol = "smb" THEN "smb_dial"
             ELSE IF protocol = "telnet" THEN "telnet_dial" ELSE "mssql_l4")
    /\ conns = <<>>
    /\ deferred = <<>>
    /\ dialCalls = 0
    /\ stepCalls = 0
    /\ negCalls = <<>>
    /\ result = NilResult
    /\ err = NoErr
    /\ retStatus = "none"
    /\ retResult = NotReturned
    /\ retErr = NoErr
    /\ banner = 0
    /\ options = 0
    /\ stream = NoStream
    /\ hs = "Init"
    /\ preloginSent = FALSE
    /\ tlsWrites = 0
    /\ PreloginOptions = NoOptions
    /\ readValidTDSPacket = FALSE
    /\ tlsConn = NoTLS
    /\ encryptMode = EncryptModeUnknown
    /\ handshakeErr = NoErr
    /\ peer = <<>>
    /\ ref = Idle
    /\ other = Idle
    /\ cur = 0
    /\ tdsPc = "idle"
    /\ tdsPayload = <<>>
    /\ tdsRest = <<>>
    /\ tdsSent = 0
    /\ tdsWire = <<>>
    /\ tdsOut = <<>>

Next ==
    \/ SmbDial
    \/ SmbNegotiate1
    \/ SmbCloseFirst
    \/ SmbRedial
    \/ SmbNegotiate2
    \/ TelnetDial
    \/ TelnetNegotiateOptions
    \/ TelnetReadByte
    \/ TelnetReadEnd
    \/ TelnetReturn
    \/ MssqlCheckL4Dialer
    \/ MssqlDial
    \/ HandshakeInit
    \/ HandshakeSendPrelogin
    \/ HandshakeAwaitPreloginResponse
    \/ HandshakeTLSWrite
    \/ HandshakeTLSDone
    \/ MssqlAssemble
    \/ MssqlReturn

Spec == Init /\ [][Next]_vars

\* ------------------------------------------------------- one scan, as a value
\* the state of one scan invocation (everything but the shared configuration)
ScanState ==
    [pc |-> pc, conns |-> conns, deferred |-> deferred, dialCalls |-> dialCalls,
     stepCalls |-> stepCalls, negCalls |-> negCalls, result |-> result, err |-> err,
     retStatus |-> retStatus, retResult |-> retResult, retErr |-> retErr,
     banner |-> banner, options |-> options, stream |-> stream,
     hs |-> hs, preloginSent |-> preloginSent, tlsWrites |-> tlsWrites,
     PreloginOptions |-> PreloginOptions, readValidTDSPacket |-> readValidTDSPacket,
     tlsConn |-> tlsConn, encryptMode |-> encryptMode, handshakeErr |-> handshakeErr,
     peer |-> peer]

\* a scan that has not started: the local variables of Scan at its entry
FreshScan(startPc) ==
    [pc |-> startPc, conns |-> <<>>, deferred |-> <<>>, dialCalls |-> 0,
     stepCalls |-> 0, negCalls |-> <<>>, result |-> NilResult, err |-> NoErr,
     retStatus |-> "none", retResult |-> NotReturned, retErr |-> NoErr,
     banner |-> 0, options |-> 0, stream |-> NoStream,
     hs |-> "Init", preloginSent |-> FALSE, tlsWrites |-> 0,
     PreloginOptions |-> NoOptions, readValidTDSPacket |-> FALSE,
     tlsConn |-> NoTLS, encryptMode |-> EncryptModeUnknown, handshakeErr |-> NoErr,
     peer |-> <<>>]

StartPc(p) ==
    IF p = "smb" THEN "smb_dial" ELSE IF p = "telnet" THEN "telnet_dial" ELSE "mssql_l4"

\* the running scan is r
ScanIs(r) ==
    /\ pc = r.pc /\ conns = r.conns /\ deferred = r.deferred
    /\ dialCalls = r.dialCalls /\ stepCalls = r.stepCalls /\ negCalls = r.negCalls
    /\ result = r.result /\ err = r.err
    /\ retStatus = r.retStatus /\ retResult = r.retResult /\ retErr = r.retErr
    /\ banner = r.banner /\ options = r.options /\ stream = r.stream
    /\ hs = r.hs /\ preloginSent = r.preloginSent /\ tlsWrites = r.tlsWrites
    /\ PreloginOptions = r.PreloginOptions
    /\ readValidTDSPacket = r.readValidTDSPacket
    /\ tlsConn = r.tlsConn /\ encryptMode = r.encryptMode
    /\ handshakeErr = r.handshakeErr /\ peer = r.peer

\* the running scan becomes r
LoadScan(r) ==
    /\ pc' = r.pc /\ conns' = r.conns /\ deferred' = r.deferred
    /\ dialCalls' = r.dialCalls /\ stepCalls' = r.stepCalls /\ negCalls' = r.negCalls
    /\ result' = r.result /\ err' = r.err
    /\ retStatus' = r.retStatus /\ retResult' = r.retResult /\ retErr' = r.retErr
    /\ banner' = r.banner /\ options' = r.options /\ stream' = r.stream
    /\ hs' = r.hs /\ preloginSent' = r.preloginSent /\ tlsWrites' = r.tlsWrites
    /\ PreloginOptions' = r.PreloginOptions
    /\ readValidTDSPacket' = r.readValidTDSPacket
    /\ tlsConn' = r.tlsConn /\ encryptMode' = r.encryptMode
    /\ handshakeErr' = r.handshakeErr /\ peer' = r.peer

\* ------------------------------------------------------ concurrent scans
\* One scanner (one protocol, one configuration) used for three scans: scan 0
\* runs alone to its return; then scans 1 and 2 run interleaved, one step of
\* one scan at a time.  Scan 1 meets the peer behaviour scan 0 met; scan 2
\* meets any peer.
IsPrefix(a, b) == Len(a) <= Len(b) /\ a = SubSeq(b, 1, Len(a))
FollowsRef == cur = 1 => IsPrefix(peer, ref.peer)

\* the option tables the servers of these scans answer with
ConcTables == [encryption : ServerModes, hasVersion : {TRUE},
               hasInstance : {TRUE}, instance : {<<"S", "NUL">>}]
ConcPeers == PreloginOptions # NoOptions => PreloginOptions \in ConcTables

\* a step of the running scan
ConcStep == Next /\ FollowsRef' /\ ConcPeers'

\* scan 0 has returned: scans 1 and 2 are started
StartPair ==
    /\ cur = 0
    /\ pc = "done"
    /\ ref' = ScanState
    /\ LoadScan(FreshScan(StartPc(protocol)))
    /\ other' = FreshScan(StartPc(protocol))
    /\ cur' = 1
    /\ UNCHANGED <<cfgVars, tdsVars>>

\* the scheduler runs the other scan of the pair
Switch ==
    /\ cur \in {1, 2}
    /\ other.pc # "done"
    /\ other' = ScanState
    /\ LoadScan(other)
    /\ cur' = 3 - cur
    /\ UNCHANGED <<cfgVars, ref, tdsVars>>

NextConc == ConcStep \/ StartPair \/ Switch

SpecConc == Init /\ [][NextConc]_vars

\* ------------------------------------------------------------ TDS framing
\* TDS packet header: type, status (bit 0 = end of message), length (two
\* bytes big-endian, header included), SPID (two bytes), packet number,
\* window
TDSHeaderSize == 8
TDSTypePrelogin == 18
TDSStatusEOM == 1
\* payload bytes: values that also occur in headers
PayloadBytes == {1, 18}
Payloads == UNION {[1..n -> PayloadBytes] : n \in 0..MaxPayload}

EncodeHeader(type, status, length, spid, number) ==
    <<type, status, length \div 256, length % 256, spid \div 256, spid % 256, number, 0>>

EncodePacket(type, eom, number, payload) ==
    EncodeHeader(type, IF eom THEN TDSStatusEOM ELSE 0,
                 TDSHeaderSize + Len(payload), 0, number) \o payload

\* the fields a reader takes from the header at the front of the wire
DecodeLength(w) == w[3] * 256 + w[4]
IsEOM(w) == w[2] % 2 = 1
HasPacket(w) == Len(w) >= TDSHeaderSize /\ Len(w) >= DecodeLength(w)
PacketPayload_FromHeaderEnd(w) == SubSeq(w, TDSHeaderSize, DecodeLength(w))
PacketPayload(w) == SubSeq(w, TDSHeaderSize + 1, DecodeLength(w))

\* the sender puts the next fragment on the wire; only the fragment that
\* ends the message carries the end-of-message bit
TdsSendPacket ==
    /\ tdsPc = "open"
    /\ \E k \in 0..MaxFragment :
        /\ k <= Len(tdsRest)
        /\ k = 0 => tdsRest = <<>>
        /\ tdsWire' = tdsWire \o EncodePacket(TDSTypePrelogin, k = Len(tdsRest),
                                              tdsSent + 1, SubSeq(tdsRest, 1, k))
        /\ tdsRest' = SubSeq(tdsRest, k + 1, Len(tdsRest))
        /\ tdsPc' = IF k = Len(tdsRest) THEN "sent" ELSE "open"
    /\ tdsSent' = tdsSent + 1
    /\ UNCHANGED <<tdsPayload, tdsOut>>
    /\ UNCHANGED <<cfgVars, scanVars, concVars>>

\* the reader takes one packet off the wire: header stripped, payload
\* appended, until the packet with the end-of-message bit
TdsReadPacket ==
    /\ tdsPc \in {"open", "sent"}
    /\ HasPacket(tdsWire)
    /\ tdsOut' = tdsOut \o PacketPayload(tdsWire)
    /\ tdsWire' = SubSeq(tdsWire, DecodeLength(tdsWire) + 1, Len(tdsWire))
    /\ tdsPc' = IF IsEOM(tdsWire) THEN "done" ELSE tdsPc
    /\ UNCHANGED <<tdsPayload, tdsRest, tdsSent>>
    /\ UNCHANGED <<cfgVars, scanVars, concVars>>

InitTDS ==
    /\ protocol = "mssql"
    /\ config = [EncryptMode |-> "ENCRYPT_ON"]
    /\ hasL4Dialer = TRUE
    /\ ScanIs(FreshScan("tds"))
    /\ ref = Idle /\ other = Idle /\ cur = 0
    /\ tdsPc = "open"
    /\ tdsPayload \in Payloads
    /\ tdsRest = tdsPayload
    /\ tdsSent = 0
    /\ tdsWire = <<>>
    /\ tdsOut = <<>>

NextTDS == TdsSendPacket \/ TdsReadPacket

SpecTDS == InitTDS /\ [][NextTDS]_vars

\* Scan is sequential code whose blocking calls all end (every dial, read,
\* write and TLS handshake respects the context deadline): a scan that can
\* take a step takes one
SpecFair == Spec /\ WF_vars(Next)

TypeOK ==
    /\ protocol \in Protocols
    /\ dialCalls \in 0..2
    /\ tlsWrites \in 0..MaxTLSChunks
    /\ banner \in 0..MaxReadSizeBound

\* ----------------------------------------------------------- properties
Done == pc = "done"
SmbDone == Done /\ protocol = "smb"
MssqlDone == Done /\ protocol = "mssql"
\* the first SMB negotiation attempt failed without a log / with a log
FirstFailedNoLog ==
    /\ protocol = "smb" /\ Len(negCalls) >= 1
    /\ negCalls[1].err # NoErr /\ negCalls[1].log = NilResult
FirstFailedPartialLog ==
    /\ protocol = "smb" /\ Len(negCalls) >= 1
    /\ negCalls[1].err # NoErr /\ negCalls[1].log # NilResult
\* the server's PRELOGIN response carried ENCRYPTION = NOT_SUPPORTED
ServerNotSupported ==
    /\ protocol = "mssql" /\ PreloginOptions # NoOptions
    /\ PreloginOptions.encryption = "ENCRYPT_NOT_SUP"

\* C1 (as stated): in every SMB scan whose first negotiation attempt fails
\* without a log, GetSMBLog is invoked exactly twice and Scan returns the
\* log and error of the second attempt.
C1_Original ==
    (SmbDone /\ FirstFailedNoLog) =>
        /\ Len(negCalls) = 2
        /\ retResult = negCalls[2].log
        /\ retErr = negCalls[2].err

\* C1 (amended): in every SMB scan whose first negotiation attempt fails
\* without a log, a second dial is made, and unless that dial fails
\* GetSMBLog is invoked exactly twice and Scan returns the log and error of
\* the second attempt only.
C1_RetryOnceAfterNoLog ==
    (SmbDone /\ FirstFailedNoLog) =>
        /\ dialCalls = 2
        /\ Len(conns) = 2 =>
            /\ Len(negCalls) = 2
            /\ retResult = negCalls[2].log
            /\ retErr = negCalls[2].err
            /\ retErr # negCalls[1].err

C1_Witness ==
    /\ SmbDone /\ FirstFailedNoLog
    /\ Len(negCalls) = 2 /\ negCalls[2].err # NoErr /\ negCalls[2].log # NilResult

\* C2: when the first SMB attempt fails with a partial log there is no
\* retry: one GetSMBLog call, one dial, and Scan returns that log and error
\* with a non-success status.
C2_NoRetryOnPartialLog ==
    FirstFailedPartialLog =>
        /\ Len(negCalls) = 1
        /\ dialCalls = 1
        /\ Len(conns) = 1
        /\ Done
        /\ retResult = negCalls[1].log
        /\ retErr = negCalls[1].err
        /\ retStatus # SCAN_SUCCESS

C2_Witness == SmbDone /\ FirstFailedPartialLog /\ retResult.tag = "smblog"

\* C3: when Scan has returned, every connection it opened has been closed
\* exactly once.
C3_ClosedExactlyOnce ==
    Done => \A i \in DOMAIN conns : conns[i].closeCalls = 1

\* C4: when the MSSQL handshake fails, the returned result is nil iff no
\* prelogin options were decoded and no inbound packet was a valid TDS
\* header; the error returned is the handshake error.
C4_NilResultIffNoSignal ==
    (MssqlDone /\ handshakeErr # NoErr) =>
        /\ (retResult = NilResult) <=> (PreloginOptions = NoOptions /\ ~readValidTDSPacket)
        /\ retResult # NilResult => retResult.tag = "mssql"
        /\ retErr = handshakeErr

C4_Witness ==
    /\ MssqlDone /\ handshakeErr # NoErr
    /\ PreloginOptions = NoOptions /\ readValidTDSPacket
    /\ retResult = [EmptyScanResults EXCEPT !.EncryptMode = EncryptModeUnknown]

\* C5: a handshake error that is or wraps ErrNoServerEncryption or
\* ErrServerRequiresEncryption is returned with status application-error,
\* whatever status the generic classifier gives that error.
C5_SentinelsAreApplicationError ==
    (MssqlDone /\ (ErrorsIs(handshakeErr, ErrNoServerEncryption)
                   \/ ErrorsIs(handshakeErr, ErrServerRequiresEncryption))) =>
        /\ retStatus = SCAN_APPLICATION_ERROR
        /\ retErr = handshakeErr

C5_Witness ==
    /\ MssqlDone
    /\ ErrorsIs(handshakeErr, ErrServerRequiresEncryption)
    /\ TryGetScanStatus(handshakeErr) = "timeout"
    /\ retStatus = SCAN_APPLICATION_ERROR

\* C6: without an L4 dialer the MSSQL scan opens no connection and sends no
\* PRELOGIN, and returns invalid-input with a nil result and an error.
C6_NoL4DialerIsInvalidInput ==
    (protocol = "mssql" /\ ~hasL4Dialer) =>
        /\ dialCalls = 0
        /\ conns = <<>>
        /\ stepCalls = 0
        /\ ~preloginSent
        /\ Done =>
            /\ retStatus = SCAN_INVALID_INPUTS
            /\ retResult = NilResult
            /\ retErr # NoErr

C6_Witness == MssqlDone /\ ~hasL4Dialer /\ retStatus = SCAN_INVALID_INPUTS

C8_NoRetryButSmbReconnect ==
    /\ protocol # "smb" => (dialCalls <= 1 /\ stepCalls <= 1 /\ negCalls = <<>>)
    /\ protocol = "smb" =>
        /\ dialCalls <= 2
        /\ Len(negCalls) <= 2
        /\ stepCalls = Len(negCalls)
        /\ Len(negCalls) = 2 => Done
    /\ Len(conns) <= dialCalls

C8_Witness ==
    /\ SmbDone /\ dialCalls = 2 /\ Len(negCalls) = 2
    /\ negCalls[2].err # NoErr /\ negCalls[2].log = NilResult

\* C9: if the server's PRELOGIN response carries ENCRYPTION = NOT_SUPPORTED,
\* no TLS handshake bytes are written in that scan and the returned result
\* has no TLS log.
C9_NotSupportedSkipsTLS ==
    ServerNotSupported =>
        /\ tlsWrites = 0
        /\ tlsConn = NoTLS
        /\ hs # "TLSHandshakeOverTDS"
        /\ Done => (retResult # NilResult /\ retResult.TLSLog = "unset")

C9_Witness ==
    /\ MssqlDone /\ ServerNotSupported /\ retStatus = SCAN_SUCCESS
    /\ preloginSent

\* C10: client ENCRYPT_ON against a server stating NOT_SUPPORTED ends the
\* handshake with ErrNoServerEncryption; Scan returns application-error and
\* a non-nil result whose EncryptMode is the server's NOT_SUPPORTED.
C10_NoServerEncryption ==
    (MssqlDone /\ ServerNotSupported /\ config.EncryptMode = "ENCRYPT_ON") =>
        /\ ErrorsIs(handshakeErr, ErrNoServerEncryption)
        /\ retErr = handshakeErr
        /\ retStatus = SCAN_APPLICATION_ERROR
        /\ retResult # NilResult
        /\ retResult.EncryptMode = "ENCRYPT_NOT_SUP"

C10_Witness ==
    /\ MssqlDone /\ ServerNotSupported /\ config.EncryptMode = "ENCRYPT_ON"
    /\ retStatus = SCAN_APPLICATION_ERROR

TelnetDone == Done /\ protocol = "telnet"
\* GetTelnetBanner got as far as reading banner bytes
BannerRead == protocol = "telnet" /\ Len(conns) = 1 /\ err.site # "negotiate"

\* C11: with --force-banner, a banner of non-zero length is always returned:
\* the result of Scan is non-nil and holds that banner, on success and on
\* every error of the banner read.
C11_ForceBannerKeepsBanner ==
    (TelnetDone /\ config.Banner /\ banner > 0) =>
        /\ retResult # NilResult
        /\ retResult.tag = "telnetlog"
        /\ retResult.banner = banner

C11_Witness ==
    /\ TelnetDone /\ config.Banner /\ banner > 0
    /\ retErr # NoErr /\ options = 0
    /\ retResult.banner = banner

\* C12: the banner never holds more than max-read-size bytes; a peer that
\* sends N > M banner bytes and then closes gets a banner of exactly M
\* bytes returned, with no error.
C12_BannerCeiling ==
    /\ protocol = "telnet" => banner <= config.MaxReadSize
    /\ (TelnetDone /\ BannerRead /\ stream.end = "eof"
            /\ banner + stream.left > config.MaxReadSize) =>
        /\ banner = config.MaxReadSize
        /\ retErr = NoErr
        /\ retStatus = SCAN_SUCCESS
        /\ retResult.banner = config.MaxReadSize

C12_Witness ==
    /\ TelnetDone /\ BannerRead /\ stream.end = "eof"
    /\ stream.left > 0 /\ banner = config.MaxReadSize
    /\ retStatus = SCAN_SUCCESS

\* C15: in every scan of the three scanners the returned status is success
\* iff the returned error is nil, and a success carries a non-nil result.
C15_SuccessIffNoError ==
    Done =>
        /\ (retStatus = SCAN_SUCCESS) <=> (retErr = NoErr)
        /\ retStatus = SCAN_SUCCESS =>
            (retResult # NilResult /\ retResult.tag \in {"smblog", "telnetlog", "mssql"})

C15_Witness ==
    /\ TelnetDone /\ retStatus = SCAN_SUCCESS
    /\ options = 0 /\ banner = 0

OpenConns == {i \in DOMAIN conns : conns[i].open}

\* C16: in the SMB retry the failed connection is closed before the second
\* one is dialed: a scan never has two connections open at once, and the
\* second negotiation runs on the new connection, not on the first.
C16_CloseBeforeRedial ==
    protocol = "smb" =>
        /\ Cardinality(OpenConns) <= 1
        /\ Len(conns) = 2 => (~conns[1].open /\ conns[1].closeCalls >= 1)
        /\ pc = "smb_redial" => OpenConns = {}
        /\ Len(negCalls) = 2 =>
            /\ negCalls[2].conn = 2
            /\ negCalls[1].conn = 1
            /\ negCalls[2].connOpen
            /\ negCalls[2].nOpen = 1

C16_Witness ==
    /\ protocol = "smb" /\ pc = "smb_neg2"
    /\ OpenConns = {2}

\* the first negotiation failed without a log and the re-dial failed too
RedialFailed == FirstFailedNoLog /\ dialCalls = 2 /\ Len(conns) = 1

\* C17: if the first negotiation fails with a nil log and the re-dial
\* fails, Scan returns a nil result, the status classified from the
\* re-dial error and an error reporting the second dial; GetSMBLog ran only
\* once and the first connection is released.
C17_RedialFailure ==
    (SmbDone /\ RedialFailed) =>
        /\ retResult = NilResult
        /\ err.site = "dial2"
        /\ retStatus = TryGetScanStatus(err)
        /\ retStatus \in DialErrClasses
        /\ retErr = Wrap(err)
        /\ Len(negCalls) = 1
        /\ ~conns[1].open
        /\ conns[1].closeCalls >= 1

C17_Witness ==
    /\ SmbDone /\ RedialFailed
    /\ retStatus = "connection-failed"
    /\ negCalls[1].err.class = "timeout"

\* the one dial of the scan failed
InitialDialFailed == dialCalls = 1 /\ conns = <<>>

\* C18: if the initial dial fails, each scanner returns a nil result, a
\* non-nil error and the non-success status of the dial error, without
\* starting a protocol step and without closing anything.
C18_InitialDialFailure ==
    (Done /\ InitialDialFailed) =>
        /\ retResult = NilResult
        /\ err.site = "dial1"
        /\ retErr = Wrap(err)
        /\ retErr # NoErr
        /\ retStatus = TryGetScanStatus(err)
        /\ retStatus # SCAN_SUCCESS
        /\ stepCalls = 0
        /\ negCalls = <<>>
        /\ banner = 0
        /\ ~preloginSent
        /\ hs = "Init"
        /\ deferred = <<>>

C18_Witness ==
    /\ MssqlDone /\ InitialDialFailed /\ hasL4Dialer
    /\ retStatus = "timeout"

\* C20: every non-nil MSSQL result has EncryptMode set; InstanceName is
\* present iff prelogin options were decoded and hold INSTANCE (present but
\* empty when the value is empty or only NUL/CR/LF); Version is set only
\* when options were decoded and hold a version.
C20_ResultAssembly ==
    (MssqlDone /\ retResult # NilResult) =>
        /\ retResult.EncryptMode # "unset"
        /\ retResult.EncryptMode = encryptMode
        /\ retResult.InstanceName.present <=>
              (PreloginOptions # NoOptions /\ PreloginOptions.hasInstance)
        /\ (retResult.InstanceName.present
                /\ \A i \in DOMAIN PreloginOptions.instance :
                      PreloginOptions.instance[i] \in TrimSet) =>
              retResult.InstanceName.value = <<>>
        /\ retResult.InstanceName.present =>
              \A i \in DOMAIN retResult.InstanceName.value :
                  retResult.InstanceName.value[i] \notin TrimSet
        /\ retResult.Version # "" =>
              (PreloginOptions # NoOptions /\ PreloginOptions.hasVersion)

C20_Witness ==
    /\ MssqlDone /\ retResult # NilResult
    /\ PreloginOptions # NoOptions /\ PreloginOptions.hasInstance
    /\ PreloginOptions.instance = <<"CR", "NUL">>
    /\ retResult.InstanceName = [present |-> TRUE, value |-> <<>>]
    /\ handshakeErr # NoErr

\* the transitions of the handshake state machine
HsEdges ==
    {<<"Init", "SendPrelogin">>,
     <<"SendPrelogin", "AwaitPreloginResponse">>, <<"SendPrelogin", "Failed">>,
     <<"AwaitPreloginResponse", "TLSHandshakeOverTDS">>,
     <<"AwaitPreloginResponse", "Done">>, <<"AwaitPreloginResponse", "Failed">>,
     <<"TLSHandshakeOverTDS", "Done">>, <<"TLSHandshakeOverTDS", "Failed">>}

HsStepInOrder ==
    /\ hs' # hs => <<hs, hs'>> \in HsEdges
    /\ tlsWrites' # tlsWrites => (hs = "TLSHandshakeOverTDS" /\ preloginSent)
    /\ preloginSent' # preloginSent => hs = "SendPrelogin"

\* C19: the MSSQL handshake visits its states only in the order Init,
\* SendPrelogin, AwaitPreloginResponse, (TLSHandshakeOverTDS), Done; no TLS
\* handshake byte is written before the PRELOGIN request was sent and its
\* response read; and a failure in any state leads to Scan returning that
\* failure.
C19_HandshakeOrder ==
    /\ [][HsStepInOrder]_vars
    /\ [](tlsWrites > 0 =>
            (preloginSent /\ readValidTDSPacket /\ PreloginOptions # NoOptions))
    /\ [](hs \in {"AwaitPreloginResponse", "TLSHandshakeOverTDS", "Done"} => preloginSent)
    /\ [](hs = "Failed" => handshakeErr # NoErr)
    /\ (hs = "Failed") ~> (pc = "done" /\ retErr = handshakeErr /\ retStatus # SCAN_SUCCESS)

C19_Witness ==
    /\ MssqlDone /\ hs = "Failed" /\ tlsWrites > 0
    /\ retErr = handshakeErr

\* C14: a logical message split over N >= 1 TDS packets, of which only the
\* last carries the end-of-message bit, is reassembled (headers stripped,
\* payloads concatenated up to the end-of-message packet) to exactly the
\* original payload, for every N and every choice of split points.
C14_FragmentationTransparent ==
    /\ tdsPc = "done" => (tdsOut = tdsPayload /\ tdsWire = <<>> /\ tdsRest = <<>>)
    /\ tdsPc \in {"open", "sent"} =>
        (Len(tdsOut) <= Len(tdsPayload) /\ tdsOut = SubSeq(tdsPayload, 1, Len(tdsOut)))

C14_Witness ==
    /\ tdsPc = "done" /\ tdsSent >= 2
    /\ Len(tdsPayload) >= 3 /\ tdsPayload[2] = TDSStatusEOM
    /\ tdsOut = tdsPayload

\* what a scan returned
Triple(r) == <<r.retStatus, r.retResult, r.retErr>>

\* C13: concurrent scans share only read-only configuration: no step of a
\* scan writes the scanner's flags or the dialer group, and a scan
\* interleaved in any way with another scan returns the (status, result,
\* error) it returns when it runs alone against the same peer behaviour.
C13_ScansDoNotInterfere ==
    /\ [][UNCHANGED cfgVars]_vars
    /\ []((cur = 1 /\ pc = "done" /\ peer = ref.peer) =>
            Triple(ScanState) = Triple(ref))

C13_Witness ==
    /\ cur = 1 /\ pc = "done" /\ peer = ref.peer
    /\ Len(peer) >= 2
    /\ other.stepCalls >= 1 /\ other.pc # "done"
    /\ ~IsPrefix(other.peer, ref.peer)
    /\ Triple(ScanState) = Triple(ref)
====
